---- MODULE Spec2Model ----
(***************************************************************************)
(* Model of imsearchtools/process/image_processor.py: ImageProcessor       *)
(* (filename derivation, _filter_image, process_image) with its settings   *)
(* and the files it reads and writes.                                      *)
(*                                                                         *)
(* Python strings that the code takes apart or builds (paths, formats,     *)
(* suffixes, colour-mode names) are sequences of one-character strings.    *)
(* Exception messages are only ever compared, and are TLA+ strings.        *)
(***************************************************************************)
EXTENDS Integers, Sequences, FiniteSets, TLC

VARIABLES
    opts,     \* self.opts: the ImageProcessorSettings shared by every call
    srcs,     \* downloaded source images on disk: path -> header (w, h, mode)
    files,    \* the output files on disk: path -> what was saved there
    callers,  \* the threads/processes that call process_image in this run
    pc,       \* per caller: position inside process_image
    fn,       \* per caller: the argument fn of the running/last call
    im,       \* per caller: the LazyImage built at line 91
    clean_fn, \* per caller: local clean_fn (line 95)
    thumb_fn, \* per caller: local thumb_fn (line 102)
    wrote,    \* per caller: the paths the running/last call has saved
    hist      \* per caller: the outcomes of the calls that have ended

vars == <<opts, srcs, files, callers, pc, fn, im, clean_fn, thumb_fn, wrote, hist>>

\* ---------------------------------------------------------------- bounds

\* Calls of process_image one caller makes in a run.
MaxCalls == 2

\* Threads or processes that may invoke process_image.
Procs == {"t1", "t2"}

\* ------------------------------------------------------ string utilities

UpperCase == <<"A","B","C","D","E","F","G","H","I","J","K","L","M",
               "N","O","P","Q","R","S","T","U","V","W","X","Y","Z">>
LowerCase == <<"a","b","c","d","e","f","g","h","i","j","k","l","m",
               "n","o","p","q","r","s","t","u","v","w","x","y","z">>

\* One character of str.lower(): ASCII capitals map to small letters,
\* every other character to itself.
LowerChar(c) ==
    IF \E i \in 1..26 : UpperCase[i] = c
    THEN LowerCase[CHOOSE i \in 1..26 : UpperCase[i] = c]
    ELSE c

\* str.lower()
Lower(s) == [i \in 1..Len(s) |-> LowerChar(s[i])]

DecimalDigits == <<"0","1","2","3","4","5","6","7","8","9">>

\* '{}'.format(n) for a non-negative int n: its decimal digits.
RECURSIVE FormatInt(_)
FormatInt(n) ==
    IF n < 10 THEN <<DecimalDigits[n + 1]>>
    ELSE FormatInt(n \div 10) \o <<DecimalDigits[(n % 10) + 1]>>

\* str.rfind(c), 1-based; 0 when c does not occur (Python: -1, 0-based).
RFind(s, c) ==
    IF \E i \in 1..Len(s) : s[i] = c
    THEN CHOOSE i \in 1..Len(s) : s[i] = c /\ \A j \in (i+1)..Len(s) : s[j] # c
    ELSE 0

\* os.path.splitext(p)[0] on POSIX: the extension starts at the last dot
\* of the last path component, unless only dots precede it there.
SplitExtRoot(p) ==
    LET sepIndex == RFind(p, "/")
        dotIndex == RFind(p, ".")
    IN  IF dotIndex > sepIndex
           /\ \E k \in (sepIndex + 1)..(dotIndex - 1) : p[k] # "."
        THEN SubSeq(p, 1, dotIndex - 1)
        ELSE p

\* --------------------------------------------------------------- settings

\* ImageProcessorSettings.__init__: the three groups with their defaults.
DefaultSettings ==
    [filter     |-> [min_width |-> 1, min_height |-> 1,
                     max_width |-> 10000, max_height |-> 10000,
                     max_size_bytes |-> 2*4*1024*1024],
     conversion |-> [format |-> <<"j","p","g">>,
                     suffix |-> <<"-","c","l","e","a","n">>],
     thumbnail  |-> [format |-> <<"j","p","g">>,
                     suffix |-> <<"-","t","h","u","m","b">>,
                     width |-> 90, height |-> 90, pad_to_size |-> TRUE]]

\* Settings a caller has overridden (any option may be overridden).
OverriddenFilter ==
    [min_width |-> 2000, min_height |-> 1,
     max_width |-> 10000, max_height |-> 2000,
     max_size_bytes |-> 12000000]

OverriddenConversion ==
    [format |-> <<"P","N","G">>, suffix |-> <<"_","c">>]

OverriddenThumbnail ==
    [format |-> <<"J","p","e","g">>, suffix |-> <<"-","t">>,
     width |-> 120, height |-> 64, pad_to_size |-> FALSE]

SettingsChoices ==
    { [filter |-> f, conversion |-> ct[1], thumbnail |-> ct[2]] :
        f \in {DefaultSettings.filter, OverriddenFilter},
        ct \in {<<DefaultSettings.conversion, DefaultSettings.thumbnail>>,
                <<OverriddenConversion, OverriddenThumbnail>>} }

\* ----------------------------------------------------------------- inputs

\* Source file names handed to process_image.
Sources ==
    { <<"i","m","/","a",".","p","n","g">>,     \* im/a.png
      <<"v",".","2","/","b">>,                 \* v.2/b   (dot in the directory only)
      <<".","c">> }                            \* .c      (leading dot, no extension)

\* PIL colour-mode names an image header reports (im.mode).
Modes == { <<"L">>, <<"R","G","B">>, <<"I">>, <<"Y","C","b","C","r">> }

\* Widths and heights an image header reports (im.size).
Dims == {0, 1, 2000, 10000, 10001}

Headers == [w : Dims, h : Dims, mode : Modes]

\* -------------------------------------------------------------- filenames

\* Mutant: the suffix is appended to fn itself, extension kept.
CleanFilenameKeepsExtension(o, f) ==
    f \o o.conversion.suffix \o <<".">> \o Lower(o.conversion.format)

\* ImageProcessor._clean_filename_from_filename
CleanFilename(o, f) ==
    SplitExtRoot(f) \o o.conversion.suffix \o <<".">> \o Lower(o.conversion.format)

\* ImageProcessor._thumb_filename_from_filename: '{}{}-{}x{}.{}'.format(...)
ThumbFilename(o, f) ==
    SplitExtRoot(f) \o o.thumbnail.suffix \o <<"-">>
        \o FormatInt(o.thumbnail.width) \o <<"x">> \o FormatInt(o.thumbnail.height)
        \o <<".">> \o Lower(o.thumbnail.format)

\* ----------------------------------------------------------------- filter

\* ImageProcessor._filter_image: the size estimate w * h * len(im.mode).
EstimatedBytes(hdr) == hdr.w * hdr.h * Len(hdr.mode)

\* Mutant: the upper bounds are tested with >= instead of >.
FilterReasonInclusiveMax(hdr, flt) ==
    IF hdr.w < flt.min_width THEN "w < min_width"
    ELSE IF hdr.h < flt.min_height THEN "h < min_height"
    ELSE IF hdr.w >= flt.max_width THEN "w > max_width"
    ELSE IF hdr.h >= flt.max_height THEN "h > max_height"
    ELSE IF EstimatedBytes(hdr) >= flt.max_size_bytes THEN "nbytes > max_size_bytes"
    ELSE "ok"

\* Mutant: the heights are tested before the widths.
FilterReasonHeightFirst(hdr, flt) ==
    IF hdr.h < flt.min_height THEN "h < min_height"
    ELSE IF hdr.w < flt.min_width THEN "w < min_width"
    ELSE IF hdr.h > flt.max_height THEN "h > max_height"
    ELSE IF hdr.w > flt.max_width THEN "w > max_width"
    ELSE IF EstimatedBytes(hdr) > flt.max_size_bytes THEN "nbytes > max_size_bytes"
    ELSE "ok"

\* ImageProcessor._filter_image: the message of the FilterException raised,
\* or "ok" when the function returns normally.
FilterReason(hdr, flt) ==
    IF hdr.w < flt.min_width THEN "w < min_width"
    ELSE IF hdr.h < flt.min_height THEN "h < min_height"
    ELSE IF hdr.w > flt.max_width THEN "w > max_width"
    ELSE IF hdr.h > flt.max_height THEN "h > max_height"
    ELSE IF EstimatedBytes(hdr) > flt.max_size_bytes THEN "nbytes > max_size_bytes"
    ELSE "ok"

\* ------------------------------------------------- imaging collaborator

\* imutils.LazyImage(fn): a handle on the file; no pixel data is read yet.
LazyImage(f) == [fn |-> f, loaded |-> FALSE]

\* LazyImage.image: the fully decoded pixel data of the file.
DecodedImage(lazy) ==
    [kind |-> "image", src |-> lazy.fn,
     shape |-> <<srcs[lazy.fn].w, srcs[lazy.fn].h>>]

\* imutils.image_exists(path)
ImageExists(path) == path \in DOMAIN files

\* imutils.save_image(path, data): the file system once the save succeeded.
SaveImage(path, data) ==
    [q \in DOMAIN files \cup {path} |-> IF q = path THEN data ELSE files[q]]

\* The arguments process_image hands to imutils.create_thumbnail.
ThumbnailRequest(o, data) ==
    [image |-> data, shape |-> <<o.thumbnail.width, o.thumbnail.height>>]

\* imutils.create_thumbnail(image, shape): the thumbnail of the request.
CreateThumbnail(req) ==
    [kind |-> "thumbnail", src |-> req.image.src, shape |-> req.shape]

\* A file that was on disk before the run started.
OldFile == [kind |-> "old", src |-> <<>>, shape |-> <<0, 0>>]

\* ------------------------------------------------------- process_image

\* The outcome of a call that has ended, as its caller observes it.
Outcome(p, how, paths, why) ==
    [fn |-> fn[p], outcome |-> how, ret |-> paths, reason |-> why,
     at |-> pc[p], wrote |-> wrote'[p], loaded |-> im'[p].loaded]

\* The call of p ends: by `return clean_fn, thumb_fn` or by an exception.
End(p, how, paths, why) ==
    /\ pc' = [pc EXCEPT ![p] = "idle"]
    /\ hist' = [hist EXCEPT ![p] = Append(@, Outcome(p, how, paths, why))]

\* Mutant: line 91 reads im.image at once, decoding before the filter.
CallEager(p) ==
    /\ p \in callers
    /\ pc[p] = "idle"
    /\ Len(hist[p]) < MaxCalls
    /\ \E f \in DOMAIN srcs :
        /\ fn' = [fn EXCEPT ![p] = f]
        /\ im' = [im EXCEPT ![p] = [LazyImage(f) EXCEPT !.loaded = TRUE]]
    /\ clean_fn' = [clean_fn EXCEPT ![p] = <<>>]
    /\ thumb_fn' = [thumb_fn EXCEPT ![p] = <<>>]
    /\ wrote' = [wrote EXCEPT ![p] = {}]
    /\ pc' = [pc EXCEPT ![p] = "filter"]
    /\ UNCHANGED <<opts, srcs, files, callers, hist>>

\* A caller invokes process_image(fn); line 91 builds the lazy image.
Call(p) ==
    /\ p \in callers
    /\ pc[p] = "idle"
    /\ Len(hist[p]) < MaxCalls
    /\ \E f \in DOMAIN srcs :
        /\ fn' = [fn EXCEPT ![p] = f]
        /\ im' = [im EXCEPT ![p] = LazyImage(f)]
    /\ clean_fn' = [clean_fn EXCEPT ![p] = <<>>]
    /\ thumb_fn' = [thumb_fn EXCEPT ![p] = <<>>]
    /\ wrote' = [wrote EXCEPT ![p] = {}]
    /\ pc' = [pc EXCEPT ![p] = "filter"]
    /\ UNCHANGED <<opts, srcs, files, callers, hist>>

\* Mutant: the FilterException is swallowed and the call goes on.
FilterImageSwallowed(p) ==
    /\ p \in callers
    /\ pc[p] = "filter"
    /\ pc' = [pc EXCEPT ![p] = "check_clean"]
    /\ UNCHANGED <<opts, srcs, files, callers, fn, im, clean_fn, thumb_fn, wrote, hist>>

\* Line 92: self._filter_image(fn) raises FilterException or returns.
FilterImage(p) ==
    /\ p \in callers
    /\ pc[p] = "filter"
    /\ UNCHANGED <<opts, srcs, files, callers, fn, im, clean_fn, thumb_fn, wrote>>
    /\ LET why == FilterReason(srcs[fn[p]], opts.filter)
       IN  IF why # "ok"
           THEN End(p, "FilterException", <<>>, why)
           ELSE /\ pc' = [pc EXCEPT ![p] = "check_clean"]
                /\ UNCHANGED hist

\* Mutant: the converted image is saved whether or not it exists.
CheckCleanAlways(p) ==
    /\ p \in callers
    /\ pc[p] = "check_clean"
    /\ clean_fn' = [clean_fn EXCEPT ![p] = CleanFilename(opts, fn[p])]
    /\ pc' = [pc EXCEPT ![p] = "save_clean"]
    /\ UNCHANGED <<opts, srcs, files, callers, fn, im, thumb_fn, wrote, hist>>

\* Lines 95-96, 98-99: derive clean_fn and test whether it exists.
CheckClean(p) ==
    /\ p \in callers
    /\ pc[p] = "check_clean"
    /\ LET c == CleanFilename(opts, fn[p])
       IN  /\ clean_fn' = [clean_fn EXCEPT ![p] = c]
           /\ pc' = [pc EXCEPT ![p] =
                        IF ~ImageExists(c) THEN "save_clean" ELSE "check_thumb"]
    /\ UNCHANGED <<opts, srcs, files, callers, fn, im, thumb_fn, wrote, hist>>

\* Mutant: a failed save of the converted image is caught and the call
\* goes on to the thumbnail.
SaveCleanSwallows(p) ==
    /\ p \in callers
    /\ pc[p] = "save_clean"
    /\ im' = [im EXCEPT ![p].loaded = TRUE]
    /\ \/ /\ files' = SaveImage(clean_fn[p], DecodedImage(im[p]))
          /\ wrote' = [wrote EXCEPT ![p] = @ \cup {clean_fn[p]}]
       \/ UNCHANGED <<files, wrote>>
    /\ pc' = [pc EXCEPT ![p] = "check_thumb"]
    /\ UNCHANGED <<opts, srcs, callers, fn, clean_fn, thumb_fn, hist>>

\* Line 97: decode the image (im.image) and save it; the save may fail,
\* and the exception then leaves process_image.
SaveClean(p) ==
    /\ p \in callers
    /\ pc[p] = "save_clean"
    /\ im' = [im EXCEPT ![p].loaded = TRUE]
    /\ \/ /\ files' = SaveImage(clean_fn[p], DecodedImage(im[p]))
          /\ wrote' = [wrote EXCEPT ![p] = @ \cup {clean_fn[p]}]
          /\ pc' = [pc EXCEPT ![p] = "check_thumb"]
          /\ UNCHANGED hist
       \/ /\ UNCHANGED <<files, wrote>>
          /\ End(p, "IOError", <<>>, "save_image")
    /\ UNCHANGED <<opts, srcs, callers, fn, clean_fn, thumb_fn>>

\* Mutant: the thumbnail is saved whether or not it exists.
CheckThumbAlways(p) ==
    /\ p \in callers
    /\ pc[p] = "check_thumb"
    /\ thumb_fn' = [thumb_fn EXCEPT ![p] = ThumbFilename(opts, fn[p])]
    /\ pc' = [pc EXCEPT ![p] = "save_thumb"]
    /\ UNCHANGED <<opts, srcs, files, callers, fn, im, clean_fn, wrote, hist>>

\* Lines 102-103, 108-111: derive thumb_fn and test whether it exists; when
\* it does, return both paths.
CheckThumb(p) ==
    /\ p \in callers
    /\ pc[p] = "check_thumb"
    /\ UNCHANGED <<opts, srcs, files, callers, fn, im, clean_fn, wrote>>
    /\ LET t == ThumbFilename(opts, fn[p])
       IN  /\ thumb_fn' = [thumb_fn EXCEPT ![p] = t]
           /\ IF ~ImageExists(t)
              THEN /\ pc' = [pc EXCEPT ![p] = "save_thumb"]
                   /\ UNCHANGED hist
              ELSE End(p, "returned", <<clean_fn[p], t>>, "")

\* Lines 104-107 and 111: decode the image, make the thumbnail, save it and
\* return both paths; the save may fail, and the exception then leaves
\* process_image.
SaveThumb(p) ==
    /\ p \in callers
    /\ pc[p] = "save_thumb"
    /\ im' = [im EXCEPT ![p].loaded = TRUE]
    /\ \/ /\ files' = SaveImage(thumb_fn[p],
                CreateThumbnail(ThumbnailRequest(opts, DecodedImage(im[p]))))
          /\ wrote' = [wrote EXCEPT ![p] = @ \cup {thumb_fn[p]}]
          /\ End(p, "returned", <<clean_fn[p], thumb_fn[p]>>, "")
       \/ /\ UNCHANGED <<files, wrote>>
          /\ End(p, "IOError", <<>>, "save_image")
    /\ UNCHANGED <<opts, srcs, callers, fn, clean_fn, thumb_fn>>

\* ---------------------------------------------------------- specifications

\* The state once the processor is constructed: settings fixed, one
\* downloaded source image, any of its two output files already on disk,
\* no call running.
InitWith(hdrs, who) ==
    /\ opts \in SettingsChoices
    /\ \E f \in Sources, hdr \in hdrs : srcs = [x \in {f} |-> hdr]
    /\ \E keep \in SUBSET {"clean", "thumb"} :
         LET f == CHOOSE x \in DOMAIN srcs : TRUE
             present == {CleanFilename(opts, f) : k \in keep \cap {"clean"}}
                          \cup {ThumbFilename(opts, f) : k \in keep \cap {"thumb"}}
         IN  files = [q \in present |-> OldFile]
    /\ callers = who
    /\ pc = [p \in Procs |-> "idle"]
    /\ fn = [p \in Procs |-> <<>>]
    /\ im = [p \in Procs |-> LazyImage(<<>>)]
    /\ clean_fn = [p \in Procs |-> <<>>]
    /\ thumb_fn = [p \in Procs |-> <<>>]
    /\ wrote = [p \in Procs |-> {}]
    /\ hist = [p \in Procs |-> <<>>]

\* One caller, every header.
Init == InitWith(Headers, {"t1"})

\* Headers of the concurrent runs: one rejected image, accepted ones.
FewHeaders ==
    { h \in Headers : h.w \in {0, 1, 2000} /\ h.h = 1
                      /\ h.mode \in {<<"R","G","B">>, <<"I">>} }

\* Every caller, calling concurrently.
InitConc == InitWith(FewHeaders, Procs)

Next ==
    \E p \in Procs :
        \/ Call(p)
        \/ FilterImage(p)
        \/ CheckClean(p)
        \/ SaveClean(p)
        \/ CheckThumb(p)
        \/ SaveThumb(p)

Spec == Init /\ [][Next]_vars

SpecConc == InitConc /\ [][Next]_vars

\* ------------------------------------------------------------ properties

\* The calls that have ended, each with its caller.
Ended == UNION { {<<p, i>> : i \in 1..Len(hist[p])} : p \in Procs }

\* The callers inside process_image.
Running == { p \in callers : pc[p] # "idle" }

Rec(c) == hist[c[1]][c[2]]

\* The five bounds of the filter, as the documentation lists them.
TooNarrow(hdr) == hdr.w < opts.filter.min_width
TooLow(hdr)    == hdr.h < opts.filter.min_height
TooWide(hdr)   == hdr.w > opts.filter.max_width
TooHigh(hdr)   == hdr.h > opts.filter.max_height
TooBig(hdr)    == hdr.w * hdr.h * Len(hdr.mode) > opts.filter.max_size_bytes

ViolatesBound(hdr) ==
    TooNarrow(hdr) \/ TooLow(hdr) \/ TooWide(hdr) \/ TooHigh(hdr) \/ TooBig(hdr)

\* C1: an image that violates a filter bound makes process_image end with
\* FilterException before any write: the call never gets past the filter,
\* saves nothing, and no step of the run creates or changes an output file,
\* whatever output files were on disk beforehand.
C1_RejectedStaysInFilter ==
    /\ \A p \in Running :
         ViolatesBound(srcs[fn[p]]) => pc[p] = "filter" /\ wrote[p] = {}
    /\ \A c \in Ended :
         ViolatesBound(srcs[Rec(c).fn]) =>
             Rec(c).outcome = "FilterException" /\ Rec(c).wrote = {}

\* C1, in full: a violating image is rejected in the filter in every state,
\* and no step of a run on a violating image changes the files.
C1_RejectedWritesNothing ==
    /\ []C1_RejectedStaysInFilter
    /\ [][(\A f \in DOMAIN srcs : ViolatesBound(srcs[f])) => files' = files]_vars

\* C1 witness: a call on a violating image has ended with FilterException
\* while output files were on disk.
C1_Witness ==
    \E c \in Ended :
        /\ ViolatesBound(srcs[Rec(c).fn])
        /\ Rec(c).outcome = "FilterException"
        /\ Cardinality(DOMAIN files) = 2

\* C2: process_image accepts an image exactly if min_width <= w <= max_width,
\* min_height <= h <= max_height and the estimated size <= max_size_bytes;
\* a value equal to a bound passes that bound.
WithinBounds(hdr) ==
    /\ opts.filter.min_width <= hdr.w /\ hdr.w <= opts.filter.max_width
    /\ opts.filter.min_height <= hdr.h /\ hdr.h <= opts.filter.max_height
    /\ hdr.w * hdr.h * Len(hdr.mode) <= opts.filter.max_size_bytes

C2_AcceptedIffWithinBounds ==
    /\ \A c \in Ended :
         (Rec(c).outcome # "FilterException") <=> WithinBounds(srcs[Rec(c).fn])
    /\ \A p \in Running :
         pc[p] # "filter" => WithinBounds(srcs[fn[p]])

\* C2 witness: an image whose width equals max_width, whose height equals
\* min_height, was accepted and the call returned.
C2_Witness ==
    \E c \in Ended :
        /\ Rec(c).outcome = "returned"
        /\ srcs[Rec(c).fn].w = opts.filter.max_width
        /\ srcs[Rec(c).fn].h = opts.filter.min_height

\* C3: the reason of a FilterException is that of the first violated bound
\* in the order w < min_width, h < min_height, w > max_width, h > max_height,
\* nbytes > max_size_bytes; a too narrow image is always reported as
\* "w < min_width".
ReasonsInOrder ==
    <<"w < min_width", "h < min_height", "w > max_width", "h > max_height",
      "nbytes > max_size_bytes">>

Violations(hdr) ==
    <<TooNarrow(hdr), TooLow(hdr), TooWide(hdr), TooHigh(hdr), TooBig(hdr)>>

C3_FirstViolatedBoundIsReported ==
    \A c \in Ended :
        LET hdr == srcs[Rec(c).fn] IN
        /\ Rec(c).outcome = "FilterException" =>
             \E k \in 1..5 :
                 /\ Violations(hdr)[k]
                 /\ \A j \in 1..(k - 1) : ~Violations(hdr)[j]
                 /\ Rec(c).reason = ReasonsInOrder[k]
        /\ TooNarrow(hdr) =>
             Rec(c).outcome = "FilterException" /\ Rec(c).reason = "w < min_width"

\* C3 witness: an image both too narrow and too high was rejected as too
\* narrow.
C3_Witness ==
    \E c \in Ended :
        /\ TooNarrow(srcs[Rec(c).fn]) /\ TooHigh(srcs[Rec(c).fn])
        /\ Rec(c).reason = "w < min_width"

\* C4: once a call on an accepted image has returned, the next call on the
\* same source returns the same two paths and saves nothing; each output
\* file is saved only if it does not exist, whatever the other one does, and
\* a file on disk is never overwritten.
C4_SecondCallSavesNothing ==
    /\ \A p \in Procs : \A i, j \in 1..Len(hist[p]) :
         (i < j /\ hist[p][i].outcome = "returned" /\ hist[p][j].fn = hist[p][i].fn)
           => /\ hist[p][j].outcome = "returned"
              /\ hist[p][j].ret = hist[p][i].ret
              /\ hist[p][j].wrote = {}
    /\ \A c \in Ended :
         Rec(c).outcome = "returned" =>
             Rec(c).ret[1] \in DOMAIN files /\ Rec(c).ret[2] \in DOMAIN files

\* C4, the steps: a file on disk keeps its content, and a path is saved only
\* when it is not on disk.
C4_SavesOnlyMissingFiles ==
    /\ \A q \in DOMAIN files : q \in DOMAIN files' /\ files'[q] = files[q]
    /\ \A p \in Procs : \A q \in wrote'[p] \ wrote[p] :
         q \notin DOMAIN files /\ q \in DOMAIN files'

\* C4, in full: the second call in succession saves nothing and returns the
\* same paths, and no step overwrites a file.
C4_Idempotent ==
    /\ []C4_SecondCallSavesNothing
    /\ [][C4_SavesOnlyMissingFiles]_vars

\* C4 witness: two calls in succession returned; the first found one of the
\* two output files on disk and saved only the other, the second saved
\* nothing.
C4_Witness ==
    /\ Len(hist["t1"]) = 2
    /\ hist["t1"][1].outcome = "returned" /\ hist["t1"][2].outcome = "returned"
    /\ Cardinality(hist["t1"][1].wrote) = 1
    /\ hist["t1"][2].wrote = {}

\* C5: when the thumbnail has to be made, the request handed to the imaging
\* collaborator depends on the setting pad_to_size: it is not the same
\* request with pad_to_size set as with pad_to_size not set.
C5_PadToSizeGovernsThumbnail ==
    \A p \in Running :
        pc[p] = "save_thumb" =>
            LET data == DecodedImage(im[p])
                other == [opts EXCEPT !.thumbnail.pad_to_size = ~@]
            IN  ThumbnailRequest(opts, data) # ThumbnailRequest(other, data)

\* Bytes one pixel takes in memory, per PIL colour mode: L 8-bit grey,
\* RGB 3x8-bit, I 32-bit signed integer, YCbCr 3x8-bit.
BytesPerPixel(mode) ==
    CASE mode = <<"L">> -> 1
      [] mode = <<"R","G","B">> -> 3
      [] mode = <<"I">> -> 4
      [] mode = <<"Y","C","b","C","r">> -> 3

\* C6: the size the filter compares against max_size_bytes is
\* width x height x bytes-per-pixel of the colour mode: an image within the
\* four dimension bounds is rejected as "nbytes > max_size_bytes" exactly if
\* that product exceeds max_size_bytes.
C6_EstimateIsBytesPerPixel ==
    \A c \in Ended :
        LET hdr == srcs[Rec(c).fn] IN
        ~(TooNarrow(hdr) \/ TooLow(hdr) \/ TooWide(hdr) \/ TooHigh(hdr)) =>
            ( (Rec(c).outcome = "FilterException"
                 /\ Rec(c).reason = "nbytes > max_size_bytes")
              <=> hdr.w * hdr.h * BytesPerPixel(hdr.mode) > opts.filter.max_size_bytes )

\* The names, numbers and formats of the runs, written out by hand.
StemOf(f) ==
    CASE f = <<"i","m","/","a",".","p","n","g">> -> <<"i","m","/","a">>
      [] f = <<"v",".","2","/","b">> -> <<"v",".","2","/","b">>
      [] f = <<".","c">> -> <<".","c">>

DecimalOf(n) ==
    CASE n = 90 -> <<"9","0">>
      [] n = 120 -> <<"1","2","0">>
      [] n = 64 -> <<"6","4">>

SmallLetters(fmt) ==
    CASE fmt = <<"j","p","g">> -> <<"j","p","g">>
      [] fmt = <<"P","N","G">> -> <<"p","n","g">>
      [] fmt = <<"J","p","e","g">> -> <<"j","p","e","g">>

\* C7 as stated: a call that returns, returns <id><suffix>.<format> and
\* <id><thumb_suffix>-<W>x<H>.<thumb_format>, with <id> the source name
\* without its extension and the two formats as configured.
C7_PathsUseConfiguredFormat ==
    \A c \in Ended :
        Rec(c).outcome = "returned" =>
            Rec(c).ret =
              << StemOf(Rec(c).fn) \o opts.conversion.suffix \o <<".">>
                   \o opts.conversion.format,
                 StemOf(Rec(c).fn) \o opts.thumbnail.suffix \o <<"-">>
                   \o DecimalOf(opts.thumbnail.width) \o <<"x">>
                   \o DecimalOf(opts.thumbnail.height) \o <<".">>
                   \o opts.thumbnail.format >>

\* C7 amended: the same two paths with the two formats in small letters;
\* they depend on the source name and the settings alone, not on the image,
\* the files on disk or the call.
C7_PathsUseLowercasedFormat ==
    \A c \in Ended :
        Rec(c).outcome = "returned" =>
            Rec(c).ret =
              << StemOf(Rec(c).fn) \o opts.conversion.suffix \o <<".">>
                   \o SmallLetters(opts.conversion.format),
                 StemOf(Rec(c).fn) \o opts.thumbnail.suffix \o <<"-">>
                   \o DecimalOf(opts.thumbnail.width) \o <<"x">>
                   \o DecimalOf(opts.thumbnail.height) \o <<".">>
                   \o SmallLetters(opts.thumbnail.format) >>

\* C7 witness: a call returned under settings whose formats have capital
\* letters, on a source name with an extension.
C7_Witness ==
    \E c \in Ended :
        /\ Rec(c).outcome = "returned"
        /\ opts.conversion.format = <<"P","N","G">>
        /\ Rec(c).fn = <<"i","m","/","a",".","p","n","g">>
        /\ Rec(c).ret = << <<"i","m","/","a","_","c",".","p","n","g">>,
                           <<"i","m","/","a","-","t","-","1","2","0","x","6","4",
                             ".","j","p","e","g">> >>

\* What a save of output path q holds, for source f: the decoded image for
\* the converted file, its thumbnail in the configured box for the other.
SavedContent(f, q) ==
    IF q = StemOf(f) \o opts.conversion.suffix \o <<".">>
             \o SmallLetters(opts.conversion.format)
    THEN [kind |-> "image", src |-> f, shape |-> <<srcs[f].w, srcs[f].h>>]
    ELSE [kind |-> "thumbnail", src |-> f,
          shape |-> <<opts.thumbnail.width, opts.thumbnail.height>>]

\* C8: with calls on the same accepted source running concurrently, all
\* calls that return, return the same two paths, and the output files end
\* as a single call leaves them: both on disk, a file that was there before
\* untouched, a file that was missing holding the one content a save of it
\* produces, however many calls saved it.
C8_SamePathsAndBothFiles ==
    /\ \A c, d \in Ended :
         (Rec(c).outcome = "returned" /\ Rec(d).outcome = "returned"
            /\ Rec(c).fn = Rec(d).fn) => Rec(c).ret = Rec(d).ret
    /\ \A c \in Ended :
         Rec(c).outcome = "returned" =>
             /\ {Rec(c).ret[1], Rec(c).ret[2]} = DOMAIN files
             /\ \A q \in DOMAIN files :
                  files[q] \in {OldFile, SavedContent(Rec(c).fn, q)}

\* C8, the steps: a file on disk keeps its content through every later save,
\* and a file is created with the one content a save of that path produces.
C8_ContentsSettleAtCreation ==
    /\ \A q \in DOMAIN files : q \in DOMAIN files' /\ files'[q] = files[q]
    /\ \A q \in DOMAIN files' \ DOMAIN files :
         \E f \in DOMAIN srcs : files'[q] = SavedContent(f, q)

\* C8, in full: under every interleaving the returned paths agree and the
\* files end as a single call leaves them.
C8_RaceIsBenign ==
    /\ []C8_SamePathsAndBothFiles
    /\ [][C8_ContentsSettleAtCreation]_vars

\* C8 witness: two concurrent calls both found the same output file missing,
\* both saved it, and both returned.
C8_Witness ==
    \E i \in 1..Len(hist["t1"]), j \in 1..Len(hist["t2"]) :
        /\ hist["t1"][i].outcome = "returned"
        /\ hist["t2"][j].outcome = "returned"
        /\ hist["t1"][i].wrote \cap hist["t2"][j].wrote # {}
        /\ hist["t1"][i].ret = hist["t2"][j].ret

\* C9: the image is fully decoded only after the filter has passed, and only
\* at a save of an output file that was found missing; a call that is in the
\* filter, or was rejected by it, has decoded nothing.
C9_NoDecodeBeforeFilterPassed ==
    /\ \A p \in Running :
         /\ pc[p] = "filter" => ~im[p].loaded
         /\ im[p].loaded => ~ViolatesBound(srcs[fn[p]])
    /\ \A c \in Ended :
         /\ Rec(c).outcome = "FilterException" => ~Rec(c).loaded
         /\ Rec(c).loaded => Rec(c).wrote # {} \/ Rec(c).outcome = "IOError"

\* C9, the steps: the decode happens in the step that saves an output file
\* found missing, and in no other.
C9_DecodeOnlyAtSaveOfMissingFile ==
    \A p \in Procs :
        (~im[p].loaded /\ im'[p].loaded) =>
            \/ pc[p] = "save_clean" /\ clean_fn[p] \notin DOMAIN files
            \/ pc[p] = "save_thumb" /\ thumb_fn[p] \notin DOMAIN files

\* C9, in full: no decode before the filter has passed, and a decode only
\* where a missing output file is produced.
C9_LazyDecode ==
    /\ []C9_NoDecodeBeforeFilterPassed
    /\ [][C9_DecodeOnlyAtSaveOfMissingFile]_vars

\* C9 witness: a call passed the filter, found the converted file on disk
\* and decoded the image only to make the missing thumbnail.
C9_Witness ==
    \E c \in Ended :
        /\ Rec(c).outcome = "returned"
        /\ Rec(c).loaded
        /\ Rec(c).wrote = {Rec(c).ret[2]}

\* C10: a failed save ends the call with the error, with no second attempt
\* and no further save: a call that failed saving the converted file has
\* saved nothing; a call that failed saving the thumbnail leaves the
\* converted file on disk, and the next call on that source saves nothing
\* but the thumbnail.
C10_FailureEndsTheCall ==
    /\ \A c \in Ended :
         Rec(c).outcome = "IOError" =>
             /\ Rec(c).at \in {"save_clean", "save_thumb"}
             /\ Rec(c).at = "save_clean" => Rec(c).wrote = {}
             /\ Rec(c).at = "save_thumb" =>
                  /\ Rec(c).wrote \in {{}, {CleanFilename(opts, Rec(c).fn)}}
                  /\ CleanFilename(opts, Rec(c).fn) \in DOMAIN files
    /\ \A p \in Procs : \A i \in 1..(Len(hist[p]) - 1) :
         (hist[p][i].outcome = "IOError" /\ hist[p][i].at = "save_thumb"
            /\ hist[p][i + 1].fn = hist[p][i].fn) =>
             /\ hist[p][i + 1].at # "save_clean"
             /\ hist[p][i + 1].outcome = "returned" =>
                  hist[p][i + 1].wrote = {hist[p][i + 1].ret[2]}
             /\ hist[p][i + 1].outcome = "IOError" => hist[p][i + 1].wrote = {}

\* C10, the steps: a save that fails ends the call there and then with the
\* error; the files stay as they were.
C10_FailedSaveIsNotRetried ==
    \A p \in Procs :
        (pc[p] \in {"save_clean", "save_thumb"} /\ im'[p].loaded /\ wrote'[p] = wrote[p]) =>
            /\ pc'[p] = "idle"
            /\ files' = files
            /\ Len(hist'[p]) = Len(hist[p]) + 1
            /\ hist'[p][Len(hist'[p])].outcome = "IOError"
            /\ hist'[p][Len(hist'[p])].at = pc[p]

\* C10, in full: a write failure is the outcome of the call, with no retry
\* and no further save, and the next call saves only what is still missing.
C10_WriteFailurePropagates ==
    /\ []C10_FailureEndsTheCall
    /\ [][C10_FailedSaveIsNotRetried]_vars

\* C10 witness: a call saved the converted file and failed on the thumbnail;
\* the next call skipped the conversion, saved the thumbnail and returned.
C10_Witness ==
    /\ Len(hist["t1"]) = 2
    /\ hist["t1"][1].outcome = "IOError" /\ hist["t1"][1].at = "save_thumb"
    /\ hist["t1"][1].wrote = {CleanFilename(opts, hist["t1"][1].fn)}
    /\ hist["t1"][2].outcome = "returned"
    /\ hist["t1"][2].wrote = {hist["t1"][2].ret[2]}

====
